---------------------------- MODULE Spec2Model ----------------------------
(* The tic-tac-toe game of src/src/Tutorial_tic-tac-toe/tic-tac-toe/      *)
(* tic-tac-toe.js: the Game component's state (history, currentMove), its  *)
(* event handlers (Board.handleClick, Game.handlePlay, Game.jumpTo) and    *)
(* the pure function calculateWinner.  One action is one user event: the   *)
(* handler runs on the values of the last render, and the re-render that   *)
(* React performs before the next event is part of the action.             *)
(* The same handlers are also taken one set-state call at a time (run).    *)
(* Beside the game: the two TaskApp components of                          *)
(* src/src/3. Managing State (useState and useReducer) and the ToDo of     *)
(* src/src/App.js, the task reducers tasksReducer and taskReducers, the    *)
(* two name forms StateStructureRedundant and StateStructure, the city     *)
(* quiz ReactingToInputWithState with its submitForm, and the              *)
(* FilterableProductTable of src/src/Thinking in React.                    *)
EXTENDS Integers, Sequences, FiniteSets

VARIABLES
    history,      \* Game: useState([Array(9).fill(null)]); a sequence, index 0 first
    currentMove,  \* Game: useState(0)
    mounted,      \* TRUE while the component tree is mounted (no render has thrown)
    event,        \* what the last handled event did: its type "mount", "play",
                  \* "ignore" or "jump", and the detail the handler recorded
    probe,        \* one call of calculateWinner: its argument and what it returned
    run,          \* the handler in progress, step by step: the set-state calls it
                  \* has still to make and the updates React has queued for the
                  \* next render
    taskApp,      \* TaskApp with useState: its tasks and the module's nextId
    reducerApp,   \* TaskApp with useReducer: its tasks, the module's nextId, and
                  \* whether it is still mounted (the reducer has not thrown)
    call,         \* one call of a task reducer: the reducer, its arguments and
                  \* what the call gave back
    redundantForm,  \* StateStructureRedundant: firstName, lastName, fullName
    derivedForm,    \* StateStructure: firstName, lastName
    quiz,         \* ReactingToInputWithState: answer, error, status, and the
                  \* calls of submitForm whose timer has not fired (pending)
    table,        \* FilterableProductTable: filterText, inStockOnly
    toDo          \* ToDo of App.js: its tasks, the module's nextId, and whether it
                  \* is still mounted

vars == <<history, currentMove, mounted, event, probe, run, taskApp, reducerApp, call,
          redundantForm, derivedForm, quiz, table, toDo>>

\* The state of the game, which the other components leave alone.
gameVars == <<history, currentMove, mounted, event, probe, run>>

\* The state of the task lists.
taskVars == <<taskApp, reducerApp, toDo>>

\* The state of the name forms.
formVars == <<redundantForm, derivedForm>>

\* The state of the other components, which the game leaves alone.
otherApps == <<taskVars, call, formVars, quiz, table>>

\* The variables the handlers of the task list leave alone.
offTasks == <<gameVars, call, formVars, quiz, table>>

\* The variables a call of a task reducer leaves alone.
offReducers == <<gameVars, taskVars, formVars, quiz, table>>

\* The variables the handlers of the name forms leave alone.
offForms == <<gameVars, taskVars, call, quiz, table>>

\* The variables the handlers of the city quiz leave alone.
offQuiz == <<gameVars, taskVars, call, formVars, table>>

\* The variables the handlers of the product table leave alone.
offTable == <<gameVars, taskVars, call, formVars, quiz>>

\* The variables the handlers of the game leave alone.
offGame == <<probe, run, otherApps>>

(* ------------------------------ bounds -------------------------------- *)

\* The longest game explored with jumps: ClickSquare leaves at most MaxMoves moves.
MaxMoves == 4

(* --------------------------- the data model ---------------------------- *)

\* JavaScript's null, the value of an empty square.
Null == "null"

\* The indices of Array(9).
Cells == 0 .. 8

Marks == {"X", "O"}

\* Array(9).fill(null)
EmptyBoard == [i \in Cells |-> Null]

\* Every array of 9 cells over {null, "X", "O"}.
AllBoards == [Cells -> Marks \cup {Null}]

\* history[i] of the source (0-based) in the 1-based sequence.
At(h, i) == h[i + 1]

(* --------------------------- calculateWinner --------------------------- *)

\* The table with its last triple mistyped: [2, 4, 7] for [2, 4, 6].
linesLastMistyped ==
    << <<0, 1, 2>>, <<3, 4, 5>>, <<6, 7, 8>>,
       <<0, 3, 6>>, <<1, 4, 7>>, <<2, 5, 8>>,
       <<0, 4, 8>>, <<2, 4, 7>> >>

\* const lines = [...]: the 8 triples in the order of the source.
lines ==
    << <<0, 1, 2>>, <<3, 4, 5>>, <<6, 7, 8>>,
       <<0, 3, 6>>, <<1, 4, 7>>, <<2, 5, 8>>,
       <<0, 4, 8>>, <<2, 4, 6>> >>

\* The loop test without its first operand: squares[a] === squares[b] && squares[b] === squares[c]
lineMatchesNoNullTest(squares, l) ==
    /\ squares[l[1]] = squares[l[2]]
    /\ squares[l[2]] = squares[l[3]]

\* The test of the loop body for the triple [a, b, c]:
\* squares[a] && squares[a] === squares[b] && squares[b] === squares[c]
lineMatches(squares, l) ==
    /\ squares[l[1]] # Null
    /\ squares[l[1]] = squares[l[2]]
    /\ squares[l[2]] = squares[l[3]]

\* for (let i = 0; i < order.length; i++) { if (match) return squares[a]; } return null;
\* the loop over the triples of `order`, from position i (1-based) on.
RECURSIVE winnerFrom(_, _, _)
winnerFrom(squares, order, i) ==
    IF i > Len(order) THEN Null
    ELSE IF lineMatches(squares, order[i]) THEN squares[order[i][1]]
    ELSE winnerFrom(squares, order, i + 1)

calculateWinner(squares) == winnerFrom(squares, lines, 1)

(* ------------------------------- Game ---------------------------------- *)

\* The next player taken from the length of history instead of the cursor.
xIsNextByLength == (Len(history) - 1) % 2 = 0

\* const xIsNext = currentMove % 2 === 0;
xIsNext == currentMove % 2 = 0

\* const currentSquares = history[currentMove];
currentSquares == At(history, currentMove)

\* The render of Game and Board throws when history[currentMove] is undefined:
\* calculateWinner(undefined) reads squares[a] of undefined (a TypeError).
renderThrows(h, c) == c \notin 0 .. (Len(h) - 1)

\* handlePlay without the slice: const nextHistory = [...history, nextSquares];
handlePlayNoSlice(nextSquares) ==
    LET nextHistory == Append(history, nextSquares)
    IN  /\ history' = nextHistory
        /\ currentMove' = Len(nextHistory) - 1

\* handlePlay with the slice one short: history.slice(0, currentMove)
handlePlayShortSlice(nextSquares) ==
    LET nextHistory == Append(SubSeq(history, 1, currentMove), nextSquares)
    IN  /\ history' = nextHistory
        /\ currentMove' = Len(nextHistory) - 1

\* handlePlay with setCurrentMove(nextHistory.length)
handlePlayCursorPastEnd(nextSquares) ==
    LET nextHistory == Append(SubSeq(history, 1, currentMove + 1), nextSquares)
    IN  /\ history' = nextHistory
        /\ currentMove' = Len(nextHistory)

\* Game.handlePlay(nextSquares)
handlePlay(nextSquares) ==
    LET nextHistory == Append(SubSeq(history, 1, currentMove + 1), nextSquares)
    IN  /\ history' = nextHistory
        /\ currentMove' = Len(nextHistory) - 1

\* The early return without the winner test: if (squares[i]) return;
clickIgnoredIfOccupied(squares, i) == squares[i] # Null

\* The early return without the occupied test: if (calculateWinner(squares)) return;
clickIgnoredIfWinner(squares, i) == calculateWinner(squares) # Null

\* The early return with the tests joined by &&.
clickIgnoredIfBoth(squares, i) == squares[i] # Null /\ calculateWinner(squares) # Null

\* The early return of Board.handleClick(i).
clickIgnored(squares, i) == squares[i] # Null \/ calculateWinner(squares) # Null

\* nextSquares without the turn: nextSquares[i] = "X";
nextSquaresAlwaysX(squares, i) == [squares EXCEPT ![i] = "X"]

\* const nextSquares = squares.slice(); nextSquares[i] = xIsNext ? "X" : "O";
nextSquaresOf(squares, i) == [squares EXCEPT ![i] = IF xIsNext THEN "X" ELSE "O"]

\* handleClick without the copy: const nextSquares = squares; the mark is written
\* into the board that history holds at currentMove, and that board is passed on.
handleClickNoCopy(i) ==
    IF clickIgnored(currentSquares, i)
    THEN /\ UNCHANGED <<history, currentMove>>
         /\ event' = [type |-> "ignore"]
    ELSE LET nextSquares == nextSquaresOf(currentSquares, i)
             written == [history EXCEPT ![currentMove + 1] = nextSquares]
             nextHistory == Append(SubSeq(written, 1, currentMove + 1), nextSquares)
         IN  /\ history' = nextHistory
             /\ currentMove' = Len(nextHistory) - 1
             /\ event' = [type |-> "play",
                          dropped |-> Len(history) - (currentMove + 1)]

\* Board.handleClick(i), with squares = currentSquares and onPlay = handlePlay.
\* event records which branch ran and, for a move, how many later entries of
\* history the slice (0, currentMove + 1) left out.
handleClick(i) ==
    IF clickIgnored(currentSquares, i)
    THEN /\ UNCHANGED <<history, currentMove>>
         /\ event' = [type |-> "ignore"]
    ELSE /\ handlePlay(nextSquaresOf(currentSquares, i))
         /\ event' = [type |-> "play",
                      dropped |-> Len(history) - (currentMove + 1)]

\* jumpTo with a range check: an index outside history is refused.
jumpToChecked(nextMove) ==
    /\ currentMove' = IF nextMove \in 0 .. (Len(history) - 1) THEN nextMove ELSE currentMove
    /\ history' = history
    /\ event' = [type |-> "jump", nextMove |-> nextMove]

\* jumpTo that also cuts history at the move jumped to:
\* setHistory(history.slice(0, nextMove + 1)), the end clamped as slice clamps it.
jumpToTruncating(nextMove) ==
    /\ currentMove' = nextMove
    /\ history' = SubSeq(history, 1,
                         IF nextMove + 1 < 0 THEN 0
                         ELSE IF nextMove + 1 > Len(history) THEN Len(history)
                         ELSE nextMove + 1)
    /\ event' = [type |-> "jump", nextMove |-> nextMove]

\* Game.jumpTo(nextMove); event records the argument of the call.
jumpTo(nextMove) ==
    /\ currentMove' = nextMove
    /\ history' = history
    /\ event' = [type |-> "jump", nextMove |-> nextMove]

\* The re-render that follows a handler: the tree stays mounted unless it throws.
rerender == mounted' = ~renderThrows(history', currentMove')

\* The text of the button of a move: "Go to Move #" + move, or "Go to Game Start".
\* A text is the sequence of its parts, a number standing for its decimal digits.
description(move) ==
    IF move > 0 THEN <<"Go to Move #", move>> ELSE <<"Go to Game Start">>

\* The list with a button for every move, the current one too.
movesAllButtons ==
    [k \in 1 .. Len(history) |->
        LET move == k - 1
        IN  [key |-> move, tag |-> "button",
             text |-> description(move), onClick |-> move]]

\* const moves = history.map((squares, move) => <li key={move}>...</li>): the
\* child of each <li>, a <p> for the current move and a <button> whose onClick
\* is jumpTo(move) for the others.
moves ==
    [k \in 1 .. Len(history) |->
        LET move == k - 1
        IN  IF currentMove = move
            THEN [key |-> move, tag |-> "p", text |-> <<"You are at move # ", move>>]
            ELSE [key |-> move, tag |-> "button",
                  text |-> description(move), onClick |-> move]]

(* ------------------- the handlers, one call at a time ------------------ *)

\* handlePlay without its second call: setHistory(nextHistory) only.
handlePlayUpdatesHistoryOnly(nextSquares) ==
    LET nextHistory == Append(SubSeq(history, 1, currentMove + 1), nextSquares)
    IN  << [state |-> "history", value |-> nextHistory] >>

\* The set-state calls of Game.handlePlay(nextSquares), in the order it makes them:
\* setHistory(nextHistory); setCurrentMove(nextHistory.length - 1);
handlePlayUpdates(nextSquares) ==
    LET nextHistory == Append(SubSeq(history, 1, currentMove + 1), nextSquares)
    IN  << [state |-> "history", value |-> nextHistory],
           [state |-> "currentMove", value |-> Len(nextHistory) - 1] >>

\* The set-state call of Game.jumpTo(nextMove): setCurrentMove(nextMove);
jumpToUpdates(nextMove) == << [state |-> "currentMove", value |-> nextMove] >>

\* No handler in progress and nothing queued.
NoRun == [calls |-> <<>>, queue |-> <<>>]

\* The value of a state variable at the next render: the value of the last
\* queued update of it, or its current value when none is queued.
queuedValue(queue, state, current) ==
    LET ks == {k \in 1 .. Len(queue) : queue[k].state = state}
    IN  IF ks = {} THEN current
        ELSE queue[CHOOSE k \in ks : \A j \in ks : j <= k].value

(* ------------------------- the task list (to-do) ----------------------- *)

\* JavaScript's undefined, the value of a function that ends without a return.
Undefined == "undefined"

\* What a call gives back: the value it returns, or the Error it throws.
returns(value) == [threw |-> FALSE, value |-> value]
throws(message) == [threw |-> TRUE, message |-> message]

\* const initialTasks = [...] of 5_ExtractingStateLogicIntoAReducer.js
initialTasks ==
    << [id |-> 0, text |-> "Visit Kafka Museum", done |-> TRUE],
       [id |-> 1, text |-> "Watch a puppet show", done |-> FALSE],
       [id |-> 2, text |-> "Lennon Wall pic", done |-> FALSE] >>

\* const initialTasks = [...] of taskReducers.js
reducerInitialTasks ==
    << [id |-> 0, text |-> "Visit Kafka Museum", done |-> TRUE],
       [id |-> 1, text |-> "Watch a puppet show", done |-> FALSE],
       [id |-> 2, text |-> "Lennon Wall pic", done |-> FALSE] >>

\* The map with its branches exchanged: t.id === task.id ? t : task
replaceTaskOthers(tasks, task) ==
    [k \in 1 .. Len(tasks) |-> IF tasks[k].id = task.id THEN tasks[k] ELSE task]

\* tasks.map((t) => t.id === task.id ? task : t)
replaceTask(tasks, task) ==
    [k \in 1 .. Len(tasks) |-> IF tasks[k].id = task.id THEN task ELSE tasks[k]]

\* tasks.filter((t) => t.id !== taskId)
withoutTask(tasks, taskId) == SelectSeq(tasks, LAMBDA t : t.id # taskId)

\* tasksReducer with the filter of "deleted" inverted: t.id === action.id
tasksReducerKeepsDeleted(tasks, action) ==
    CASE action.type = "added" ->
             returns(Append(tasks, [id |-> action.id, text |-> action.text, done |-> FALSE]))
      [] action.type = "changed" -> returns(replaceTask(tasks, action.task))
      [] action.type = "deleted" -> returns(SelectSeq(tasks, LAMBDA t : t.id = action.id))
      [] OTHER -> throws(<<"Unknown action: ", action.type>>)

\* tasksReducer(tasks, action): the switch on action.type with its default clause.
\* A text made by + is the sequence of its parts.
tasksReducer(tasks, action) ==
    CASE action.type = "added" ->
             returns(Append(tasks, [id |-> action.id, text |-> action.text, done |-> FALSE]))
      [] action.type = "changed" -> returns(replaceTask(tasks, action.task))
      [] action.type = "deleted" -> returns(withoutTask(tasks, action.id))
      [] OTHER -> throws(<<"Unknown action: ", action.type>>)

\* taskReducers(tasks, action): the switch on action.type. Its last clause is
\* case "default", a case for the type "default" and not a default clause: for
\* any other type no case matches, the function ends and returns undefined.
taskReducers(tasks, action) ==
    CASE action.type = "add" ->
             returns(Append(tasks, [id |-> action.id, text |-> action.text, done |-> FALSE]))
      [] action.type = "remove" -> returns(withoutTask(tasks, action.id))
      [] action.type = "edit" -> returns(replaceTask(tasks, action.task))
      [] action.type = "default" -> throws(<<"Unknown action: ", action.type>>)
      [] OTHER -> returns(Undefined)

\* handleAddTask with the id taken from the length of the list: id: tasks.length
handleAddTaskIdFromLength(text) ==
    [tasks |-> Append(taskApp.tasks,
                      [id |-> Len(taskApp.tasks), text |-> text, done |-> FALSE]),
     nextId |-> taskApp.nextId + 1]

\* TaskApp (useState): handleAddTask(text), with nextId++
handleAddTask(text) ==
    [tasks |-> Append(taskApp.tasks,
                      [id |-> taskApp.nextId, text |-> text, done |-> FALSE]),
     nextId |-> taskApp.nextId + 1]

\* TaskApp (useState): handleChangeTask(task)
handleChangeTask(task) == [taskApp EXCEPT !.tasks = replaceTask(taskApp.tasks, task)]

\* TaskApp (useState): handleDeleteTask(taskId)
handleDeleteTask(taskId) == [taskApp EXCEPT !.tasks = withoutTask(taskApp.tasks, taskId)]

\* dispatch(action) of useReducer(tasksReducer, initialTasks): the next tasks are
\* what the reducer returns; an Error it throws takes the component down.
dispatch(app, action) ==
    LET out == tasksReducer(app.tasks, action)
    IN  IF out.threw THEN [app EXCEPT !.mounted = FALSE]
        ELSE [app EXCEPT !.tasks = out.value]

\* TaskApp (useReducer): handleAddTask(text), with nextId++
reducerHandleAddTask(text) ==
    [dispatch(reducerApp, [type |-> "added", id |-> reducerApp.nextId, text |-> text])
        EXCEPT !.nextId = reducerApp.nextId + 1]

\* TaskApp (useReducer): handleChangeTask(task)
reducerHandleChangeTask(task) == dispatch(reducerApp, [type |-> "changed", task |-> task])

\* TaskApp (useReducer): handleDeleteTask(taskId)
reducerHandleDeleteTask(taskId) == dispatch(reducerApp, [type |-> "deleted", id |-> taskId])

\* const initialTasks = [...] of App.js
toDoInitialTasks ==
    << [id |-> 0, text |-> "Visit Kafka Museum", done |-> TRUE],
       [id |-> 1, text |-> "Watch a puppet show", done |-> FALSE],
       [id |-> 2, text |-> "Lennon Wall pic", done |-> FALSE] >>

\* dispatch(action) of ToDo's useReducer. App.js names its reducer tasksReducer
\* and binds the name nowhere; the reducer taken is the one of the repository
\* that has the types ToDo dispatches ("add", "edit", "remove"), taskReducers.
toDoDispatch(app, action) ==
    LET out == taskReducers(app.tasks, action)
    IN  IF out.threw THEN [app EXCEPT !.mounted = FALSE]
        ELSE [app EXCEPT !.tasks = out.value]

\* ToDo: handleAddTask(text), with nextId++
toDoHandleAddTask(text) ==
    [toDoDispatch(toDo, [type |-> "add", id |-> toDo.nextId, text |-> text])
        EXCEPT !.nextId = toDo.nextId + 1]

\* ToDo: handleChangeTask(task)
toDoHandleChangeTask(task) == toDoDispatch(toDo, [type |-> "edit", task |-> task])

\* ToDo: handleDeleteTask(taskId)
toDoHandleDeleteTask(taskId) == toDoDispatch(toDo, [type |-> "remove", id |-> taskId])

(* ---------------------------- the name forms --------------------------- *)

\* A string is the sequence of its characters: '' is <<>>, + is \o.
Space == <<" ">>

\* StateStructureRedundant.handleFirstNameChange(e), value = e.target.value:
\* setFirstName(value); setFullName(value + ' ' + lastName);
redundantHandleFirstNameChange(value) ==
    [redundantForm EXCEPT !.firstName = value,
                          !.fullName = value \o Space \o redundantForm.lastName]

\* StateStructureRedundant.handleLastNameChange(e):
\* setLastName(value); setFullName(firstName + ' ' + value);
redundantHandleLastNameChange(value) ==
    [redundantForm EXCEPT !.lastName = value,
                          !.fullName = redundantForm.firstName \o Space \o value]

\* StateStructure.handleFirstNameChange(e): setFirstName(e.target.value);
handleFirstNameChange(value) == [derivedForm EXCEPT !.firstName = value]

\* StateStructure.handleLastNameChange(e): setLastName(e.target.value);
handleLastNameChange(value) == [derivedForm EXCEPT !.lastName = value]

\* StateStructure: const fullName = firstName + ' ' + lastName;
fullName == derivedForm.firstName \o Space \o derivedForm.lastName

(* ----------------------------- the city quiz -------------------------- *)

\* The upper-case letters of the texts the model holds, each with its lower case.
lowerCase ==
    [c \in {"A", "D", "I", "L", "M", "P", "S"} |->
        CASE c = "A" -> "a" [] c = "D" -> "d" [] c = "I" -> "i" [] c = "L" -> "l"
          [] c = "M" -> "m" [] c = "P" -> "p" [] c = "S" -> "s"]

\* String.prototype.toLowerCase on a string of these texts: every upper-case
\* letter becomes its lower case, every other character stays.
toLowerCase(s) ==
    [k \in 1 .. Len(s) |-> IF s[k] \in DOMAIN lowerCase THEN lowerCase[s[k]] ELSE s[k]]

\* The test without toLowerCase: answer !== 'lima'
shouldErrorCaseSensitive(answer) == answer # <<"l", "i", "m", "a">>

\* submitForm: let shouldError = answer.toLowerCase() !== 'lima'
shouldError(answer) == toLowerCase(answer) # <<"l", "i", "m", "a">>

\* The message of the Error submitForm rejects with.
wrongAnswer == "Good guess but a wrong answer. Try again!"

\* <textarea disabled={status === 'submitting'} />
textareaDisabled == quiz.status = "submitting"

\* The button disabled on the empty answer only: disabled={answer.length === 0}
buttonDisabledIfEmpty == Len(quiz.answer) = 0

\* <button disabled={answer.length === 0 || status === 'submitting'}>
buttonDisabled == Len(quiz.answer) = 0 \/ quiz.status = "submitting"

\* if (status === 'success') return <h1>That's right!</h1>: the form is rendered
\* in every other status.
formRendered == quiz.status # "success"

\* handleTextareaChange(e): setAnswer(e.target.value);
handleTextareaChange(value) == [quiz EXCEPT !.answer = value]

\* handleSubmit(e) up to its await: setStatus('submitting'); submitForm(answer)
\* creates the promise and starts its timer.
handleSubmit ==
    [quiz EXCEPT !.status = "submitting", !.pending = Append(@, quiz.answer)]

\* handleSubmit without its catch: a rejection leaves the state as it is.
handleSubmitResumedNoCatch(answer) ==
    IF shouldError(answer)
    THEN [quiz EXCEPT !.pending = Tail(@)]
    ELSE [quiz EXCEPT !.status = "success", !.pending = Tail(@)]

\* The timer of the oldest pending submitForm(answer) fires, the promise is
\* settled and handleSubmit resumes after its await: setStatus('success'), or in
\* the catch setStatus('typing'); setError(err);
handleSubmitResumed(answer) ==
    IF shouldError(answer)
    THEN [quiz EXCEPT !.status = "typing", !.error = wrongAnswer, !.pending = Tail(@)]
    ELSE [quiz EXCEPT !.status = "success", !.pending = Tail(@)]

(* --------------------------- the product table ------------------------- *)

\* const PRODUCTS = [...]; a name is the sequence of its characters.
PRODUCTS ==
    << [category |-> "Fruits", price |-> "$1", stocked |-> TRUE,
        name |-> <<"A", "p", "p", "l", "e">>],
       [category |-> "Fruits", price |-> "$1", stocked |-> TRUE,
        name |-> <<"D", "r", "a", "g", "o", "n", "f", "r", "u", "i", "t">>],
       [category |-> "Fruits", price |-> "$2", stocked |-> FALSE,
        name |-> <<"P", "a", "s", "s", "i", "o", "n", "f", "r", "u", "i", "t">>],
       [category |-> "Vegetables", price |-> "$2", stocked |-> TRUE,
        name |-> <<"S", "p", "i", "n", "a", "c", "h">>],
       [category |-> "Vegetables", price |-> "$4", stocked |-> FALSE,
        name |-> <<"P", "u", "m", "p", "k", "i", "n">>],
       [category |-> "Vegetables", price |-> "$1", stocked |-> TRUE,
        name |-> <<"P", "e", "a", "s">>] >>

\* String.prototype.indexOf: the first index (0-based) at which searchString
\* occurs in s, or -1 when it occurs nowhere.
indexOf(s, searchString) ==
    LET at == {k \in 0 .. (Len(s) - Len(searchString)) :
                  SubSeq(s, k + 1, k + Len(searchString)) = searchString}
    IN  IF at = {} THEN -1 ELSE CHOOSE k \in at : \A j \in at : k <= j

\* The two tests with only the name lowered: product.name.toLowerCase().indexOf(filterText)
productSkippedFilterAsTyped(product, filterText, inStockOnly) ==
    \/ indexOf(toLowerCase(product.name), filterText) = -1
    \/ inStockOnly /\ ~product.stocked

\* The two tests of the forEach body that return before a row is pushed.
productSkipped(product, filterText, inStockOnly) ==
    \/ indexOf(toLowerCase(product.name), toLowerCase(filterText)) = -1
    \/ inStockOnly /\ ~product.stocked

\* products.forEach((product) => {...}) from position k on, with the rows pushed
\* and the lastCategory set so far; a row is its component, its key and its prop.
RECURSIVE rowsFrom(_, _, _, _, _, _)
rowsFrom(products, filterText, inStockOnly, k, rows, lastCategory) ==
    IF k > Len(products) THEN rows
    ELSE LET product == products[k]
             categoryRow == [component |-> "ProductCategoryRow",
                             key |-> product.category, category |-> product.category]
             productRow == [component |-> "ProductRow",
                            key |-> product.name, product |-> product]
         IN  IF productSkipped(product, filterText, inStockOnly)
             THEN rowsFrom(products, filterText, inStockOnly, k + 1, rows, lastCategory)
             ELSE rowsFrom(products, filterText, inStockOnly, k + 1,
                           IF product.category # lastCategory
                           THEN rows \o <<categoryRow, productRow>>
                           ELSE Append(rows, productRow),
                           product.category)

\* ProductTable({ products, filterText, inStockOnly }): the rows of its <tbody>.
ProductTable(products, filterText, inStockOnly) ==
    rowsFrom(products, filterText, inStockOnly, 1, <<>>, Null)

(* ------------------------------ actions -------------------------------- *)

\* A click on square i of the board, handled and rendered.
SquareStep(i) ==
    /\ mounted
    /\ handleClick(i)
    /\ rerender
    /\ UNCHANGED offGame

\* A click on the button of move `move` in the list of moves: the render makes a
\* button for every index of history but currentMove.
MoveStep(move) ==
    /\ mounted
    /\ move \in 0 .. (Len(history) - 1)
    /\ move # currentMove
    /\ jumpTo(move)
    /\ rerender
    /\ UNCHANGED offGame

\* A call of jumpTo(nextMove) from anywhere, handled and rendered.
JumpStep(nextMove) ==
    /\ mounted
    /\ jumpTo(nextMove)
    /\ rerender
    /\ UNCHANGED offGame

\* A square click, explored while it leaves a game of at most MaxMoves moves.
ClickSquare ==
    \E i \in Cells :
        /\ SquareStep(i)
        /\ Len(history') <= MaxMoves + 1

\* A square click at any length of the game.
PlaySquare == \E i \in Cells : SquareStep(i)

ClickMove == \E move \in 0 .. (Len(history) - 1) : MoveStep(move)

\* The arguments a direct call of jumpTo is explored with.
JumpArgs == -1 .. (MaxMoves + 2)

\* A call of jumpTo with any integer, in range or not.
CallJumpTo == \E nextMove \in JumpArgs : JumpStep(nextMove)

\* The longest game explored one call at a time.
MaxStepMoves == 3

\* A click on square i starts Board.handleClick(i): it returns at once, or goes
\* on to the calls of handlePlay. A handler starts only when none is in
\* progress and the render of the last one is done (handlers run to completion).
StartSquare(i) ==
    /\ mounted
    /\ run = NoRun
    /\ IF clickIgnored(currentSquares, i)
       THEN /\ event' = [type |-> "ignore"]
            /\ run' = run
       ELSE /\ event' = [type |-> "play",
                         dropped |-> Len(history) - (currentMove + 1)]
            /\ run' = [calls |-> handlePlayUpdates(nextSquaresOf(currentSquares, i)),
                       queue |-> <<>>]
    /\ UNCHANGED <<history, currentMove, mounted, probe, otherApps>>

\* A click on the button of a move starts jumpTo(move).
StartMove(move) ==
    /\ mounted
    /\ run = NoRun
    /\ move \in 0 .. (Len(history) - 1)
    /\ move # currentMove
    /\ event' = [type |-> "jump", nextMove |-> move]
    /\ run' = [calls |-> jumpToUpdates(move), queue |-> <<>>]
    /\ UNCHANGED <<history, currentMove, mounted, probe, otherApps>>

\* The handler in progress makes its next set-state call: React queues the
\* update, the state the components see is not touched.
CallSetState ==
    /\ run.calls # <<>>
    /\ run' = [calls |-> Tail(run.calls), queue |-> Append(run.queue, Head(run.calls))]
    /\ UNCHANGED <<history, currentMove, mounted, event, probe, otherApps>>

\* The handler has returned: React applies every queued update and renders once.
Render ==
    /\ run.calls = <<>>
    /\ run.queue # <<>>
    /\ history' = queuedValue(run.queue, "history", history)
    /\ currentMove' = queuedValue(run.queue, "currentMove", currentMove)
    /\ rerender
    /\ run' = NoRun
    /\ UNCHANGED <<event, probe, otherApps>>

StartClickSquare ==
    \E i \in Cells :
        /\ StartSquare(i)
        /\ run' # NoRun => currentMove < MaxStepMoves

StartClickMove == \E move \in 0 .. (Len(history) - 1) : StartMove(move)

\* One evaluation of calculateWinner on the probed board.
Evaluate ==
    /\ ~probe.returned
    /\ probe' = [probe EXCEPT !.returned = TRUE,
                              !.value = calculateWinner(probe.squares)]
    /\ UNCHANGED <<history, currentMove, mounted, event, run, otherApps>>

\* The tasks added in one run of the task list.
MaxAdds == 2

\* The texts typed into the task list.
Texts == {"Buy a map", "Tram 22"}

\* The ids the events of the task list carry: those of the tasks there can be,
\* and one more that no task has.
TaskIds == 0 .. (Len(initialTasks) + MaxAdds)

\* The task objects a change event carries: any id with a typed text, or a task
\* of the list with its done flag the other way (the text it has is kept).
TaskValues ==
    [id : TaskIds, text : Texts, done : BOOLEAN] \cup
    {[taskApp.tasks[k] EXCEPT !.done = ~taskApp.tasks[k].done] : k \in 1 .. Len(taskApp.tasks)}

\* AddTask calls onAddTask(text): the three components handle the same event.
AddTask(text) ==
    /\ reducerApp.mounted
    /\ toDo.mounted
    /\ taskApp.nextId < Len(initialTasks) + MaxAdds
    /\ taskApp' = handleAddTask(text)
    /\ reducerApp' = reducerHandleAddTask(text)
    /\ toDo' = toDoHandleAddTask(text)
    /\ UNCHANGED offTasks

\* TaskList calls onChangeTask(task).
ChangeTask(task) ==
    /\ reducerApp.mounted
    /\ toDo.mounted
    /\ taskApp' = handleChangeTask(task)
    /\ reducerApp' = reducerHandleChangeTask(task)
    /\ toDo' = toDoHandleChangeTask(task)
    /\ UNCHANGED offTasks

\* TaskList calls onDeleteTask(taskId).
DeleteTask(taskId) ==
    /\ reducerApp.mounted
    /\ toDo.mounted
    /\ taskApp' = handleDeleteTask(taskId)
    /\ reducerApp' = reducerHandleDeleteTask(taskId)
    /\ toDo' = toDoHandleDeleteTask(taskId)
    /\ UNCHANGED offTasks

\* One call of the reducer named in call, on the arguments held in call.
Reduce ==
    /\ ~call.returned
    /\ call' = [call EXCEPT
                   !.returned = TRUE,
                   !.outcome = IF call.reducer = "tasksReducer"
                               THEN tasksReducer(call.tasks, call.action)
                               ELSE taskReducers(call.tasks, call.action)]
    /\ UNCHANGED offReducers

AddAnyTask == \E text \in Texts : AddTask(text)
ChangeAnyTask == \E task \in TaskValues : ChangeTask(task)
DeleteAnyTask == \E taskId \in TaskIds : DeleteTask(taskId)

\* The longest name typed into a form.
MaxNameLen == 3

Letters == {"a", "b"}

\* The values an input of a form can hold.
Names == UNION {[1 .. n -> Letters] : n \in 0 .. MaxNameLen}

\* The first-name input changes to value: both forms handle the same event.
FirstNameChange(value) ==
    /\ redundantForm' = redundantHandleFirstNameChange(value)
    /\ derivedForm' = handleFirstNameChange(value)
    /\ UNCHANGED offForms

\* The last-name input changes to value.
LastNameChange(value) ==
    /\ redundantForm' = redundantHandleLastNameChange(value)
    /\ derivedForm' = handleLastNameChange(value)
    /\ UNCHANGED offForms

ChangeFirstName == \E value \in Names : FirstNameChange(value)
ChangeLastName == \E value \in Names : LastNameChange(value)

\* The longest answer typed into the quiz.
MaxAnswerLen == 4

\* The keys typed into the textarea.
QuizLetters == {"l", "i", "m", "a", "L", "I", "M", "A"}

\* The values the textarea can get from one key: one more letter, or one
\* character less.
AnswerEdits ==
    (IF Len(quiz.answer) < MaxAnswerLen
     THEN {Append(quiz.answer, c) : c \in QuizLetters} ELSE {}) \cup
    (IF Len(quiz.answer) > 0
     THEN {SubSeq(quiz.answer, 1, Len(quiz.answer) - 1)} ELSE {})

\* The textarea changes to value; a disabled textarea takes no input.
TextareaChange(value) ==
    /\ formRendered
    /\ ~textareaDisabled
    /\ quiz' = handleTextareaChange(value)
    /\ UNCHANGED offQuiz

\* The Submit button is clicked and the form submitted; a disabled button
\* submits nothing.
SubmitClick ==
    /\ formRendered
    /\ ~buttonDisabled
    /\ quiz' = handleSubmit
    /\ UNCHANGED offQuiz

\* The timer of the oldest pending submitForm fires, 1500 ms after its call.
TimerFires ==
    /\ quiz.pending # <<>>
    /\ quiz' = handleSubmitResumed(Head(quiz.pending))
    /\ UNCHANGED offQuiz

TypeAnswer == \E value \in AnswerEdits : TextareaChange(value)

\* The longest text typed into the search field.
MaxFilterLen == 2

\* The keys typed into the search field.
FilterLetters == {"a", "A", "p", "P", "s", "i", "I", "u"}

\* The values the search field can get from one key.
FilterEdits ==
    (IF Len(table.filterText) < MaxFilterLen
     THEN {Append(table.filterText, c) : c \in FilterLetters} ELSE {}) \cup
    (IF Len(table.filterText) > 0
     THEN {SubSeq(table.filterText, 1, Len(table.filterText) - 1)} ELSE {})

\* SearchBar: onChange={(e) => onFilterTextChange(e.target.value)}, with
\* onFilterTextChange = setFilterText.
FilterTextChange(value) ==
    /\ table' = [table EXCEPT !.filterText = value]
    /\ UNCHANGED offTable

\* SearchBar: onChange={(e) => onInStockOnlyChange(e.target.checked)}, with
\* onInStockOnlyChange = setInStockOnly; a click turns the checkbox over.
InStockOnlyChange ==
    /\ table' = [table EXCEPT !.inStockOnly = ~table.inStockOnly]
    /\ UNCHANGED offTable

TypeFilter == \E value \in FilterEdits : FilterTextChange(value)

(* --------------------------- specifications ---------------------------- *)

GameInit ==
    /\ history = <<EmptyBoard>>
    /\ currentMove = 0
    /\ mounted = TRUE
    /\ event = [type |-> "mount"]

NoProbe == [squares |-> EmptyBoard, returned |-> TRUE, value |-> Null]

\* let nextId = 3; useState(initialTasks); useReducer(tasksReducer, initialTasks)
TasksInit ==
    /\ taskApp = [tasks |-> initialTasks, nextId |-> 3]
    /\ reducerApp = [tasks |-> reducerInitialTasks, nextId |-> 3, mounted |-> TRUE]
    /\ toDo = [tasks |-> toDoInitialTasks, nextId |-> 3, mounted |-> TRUE]

NoCall ==
    [reducer |-> "tasksReducer", tasks |-> <<>>, action |-> [type |-> "deleted", id |-> 0],
     returned |-> TRUE, outcome |-> returns(<<>>)]

\* useState('') for every name of the two forms.
FormsInit ==
    /\ redundantForm = [firstName |-> <<>>, lastName |-> <<>>, fullName |-> <<>>]
    /\ derivedForm = [firstName |-> <<>>, lastName |-> <<>>]

\* useState(''), useState(null), useState('typing'); no submitForm called yet.
QuizInit == quiz = [answer |-> <<>>, error |-> Null, status |-> "typing", pending |-> <<>>]

\* useState(''), useState(false)
TableInit == table = [filterText |-> <<>>, inStockOnly |-> FALSE]

Init ==
    /\ GameInit /\ probe = NoProbe /\ run = NoRun
    /\ TasksInit /\ call = NoCall /\ FormsInit /\ QuizInit /\ TableInit

\* The game as the user drives it: square clicks and move-button clicks.
Next == ClickSquare \/ ClickMove

Spec == Init /\ [][Next]_vars

\* The game with jumpTo also called directly with arbitrary integers.
NextApi == ClickSquare \/ ClickMove \/ CallJumpTo

SpecApi == Init /\ [][NextApi]_vars

\* calculateWinner applied to every array of 9 cells.
InitWinner ==
    /\ GameInit
    /\ probe \in [squares : AllBoards, returned : {FALSE}, value : {Null}]
    /\ run = NoRun
    /\ TasksInit
    /\ call = NoCall
    /\ FormsInit
    /\ QuizInit
    /\ TableInit

NextWinner == Evaluate

SpecWinner == InitWinner /\ [][NextWinner]_vars

\* The games played without going back, to any length.
NextPlay == PlaySquare

SpecPlay == Init /\ [][NextPlay]_vars

\* The game one call at a time: a handler starts, makes its set-state calls one
\* by one, returns, and React renders.
NextSteps == StartClickSquare \/ StartClickMove \/ CallSetState \/ Render

SpecSteps == Init /\ [][NextSteps]_vars

\* The two task lists under the same events, one event per render.
NextTasks == AddAnyTask \/ ChangeAnyTask \/ DeleteAnyTask

SpecTasks == Init /\ [][NextTasks]_vars

\* The action objects a reducer is called with: those of the two sets of type
\* names, each with the fields its type carries, and objects of other types.
ReducerActions ==
    [type : {"added", "add"}, id : {Len(initialTasks)}, text : Texts] \cup
    [type : {"changed", "edit"}, task : [id : {0, 1}, text : Texts, done : BOOLEAN]] \cup
    [type : {"deleted", "remove"}, id : {0, 2}] \cup
    [type : {"default", "toggled", ""}]

\* The task lists a reducer is called with: the first n of the initial tasks,
\* and a list in which two tasks have one id.
ReducerTasks ==
    {SubSeq(initialTasks, 1, n) : n \in 0 .. Len(initialTasks)} \cup
    {<<initialTasks[1], initialTasks[2], [initialTasks[1] EXCEPT !.done = FALSE]>>}

\* Each of the two reducers applied once to each list and action.
InitReducers ==
    /\ GameInit /\ probe = NoProbe /\ run = NoRun /\ TasksInit /\ FormsInit /\ QuizInit /\ TableInit
    /\ call \in [reducer : {"tasksReducer", "taskReducers"}, tasks : ReducerTasks,
                  action : ReducerActions, returned : {FALSE}, outcome : {returns(Undefined)}]

NextReducers == Reduce

SpecReducers == InitReducers /\ [][NextReducers]_vars

\* The two name forms under the same edits.
NextNames == ChangeFirstName \/ ChangeLastName

SpecNames == Init /\ [][NextNames]_vars

\* The city quiz: typing, submitting, and the timers of submitForm.
NextQuiz == TypeAnswer \/ SubmitClick \/ TimerFires

SpecQuiz == Init /\ [][NextQuiz]_vars

\* The city quiz with a timer that fires: a timer started by setTimeout is not
\* left waiting forever.
SpecQuizTimed == SpecQuiz /\ WF_vars(TimerFires)

\* The product table under edits of the search text and the checkbox.
NextTable == TypeFilter \/ InStockOnlyChange

SpecTable == Init /\ [][NextTable]_vars

(* ------------------------------- claims -------------------------------- *)

\* The cells in which two boards differ.
DiffCells(b1, b2) == {c \in Cells : b1[c] # b2[c]}

\* The marks on a board.
MarkCount(b) == Cardinality({c \in Cells : b[c] # Null})

\* The indices of history, 0-based as in the source.
Indices == 0 .. (Len(history) - 1)

\* C1: an accepted move at cursor c replaces everything after index c by the one
\* new board: the new length is c + 2, the new cursor c + 1, entry c + 1 is the
\* board of the move (the current board with one empty cell marked) and entries
\* 0..c are as before.  From a history of 5 boards with the cursor moved to 1,
\* an accepted move leaves 3 boards, the first two as before, and cursor 2.
C1_AppendMove ==
    [][ event'.type = "play" =>
          LET c == currentMove IN
          /\ Len(history') = c + 2
          /\ currentMove' = c + 1
          /\ SubSeq(history', 1, c + 1) = SubSeq(history, 1, c + 1)
          /\ \E i \in Cells :
                /\ currentSquares[i] = Null
                /\ At(history', c + 1) = nextSquaresOf(currentSquares, i)
          /\ (Len(history) = 5 /\ c = 1 =>
                /\ Len(history') = 3
                /\ currentMove' = 2
                /\ At(history', 0) = At(history, 0)
                /\ At(history', 1) = At(history, 1))
      ]_vars

\* C1's case: a move made at cursor 1 of a history of 5 boards dropped 3 of them.
C1_Witness ==
    /\ event.type = "play"
    /\ event.dropped = 3
    /\ Len(history) = 3
    /\ currentMove = 2

\* C2: the cursor is an integer with 0 <= currentMove <= len(history) - 1, and
\* the current board history[currentMove] is a board.
C2_CursorInRange ==
    /\ currentMove \in Int
    /\ 0 <= currentMove
    /\ currentMove <= Len(history) - 1
    /\ currentSquares \in AllBoards

\* C2's case: the cursor was moved back to the start of a game of 3 or more moves.
C2_Witness ==
    /\ event.type = "jump"
    /\ currentMove = 0
    /\ Len(history) >= 4

\* C3: consecutive boards of history differ in exactly one cell, empty in the
\* earlier board and marked in the later one; no index is excepted.
C3_OneCellPerStep ==
    \A i \in 0 .. (Len(history) - 2) :
        LET d == DiffCells(At(history, i), At(history, i + 1)) IN
        /\ Cardinality(d) = 1
        /\ \A c \in d : At(history, i)[c] = Null /\ At(history, i + 1)[c] \in Marks

\* C3's case: a history whose last board was written over a dropped future.
C3_Witness ==
    /\ event.type = "play"
    /\ event.dropped >= 2
    /\ Len(history) >= 3

\* C4: history[0] is the empty board and history[i] holds exactly i marks.
C4_IndexIsMoveCount ==
    /\ At(history, 0) = EmptyBoard
    /\ \A i \in Indices : MarkCount(At(history, i)) = i

\* C4's case: a move played after jumping backward, two or more moves into the game.
C4_Witness ==
    /\ event.type = "play"
    /\ event.dropped >= 1
    /\ currentMove >= 2

\* C5: jumpTo(index) with 0 <= index < len(history) sets the cursor to index and
\* leaves history as it was.
C5_JumpKeepsHistory ==
    [][ (event'.type = "jump" /\ event'.nextMove \in Indices) =>
          /\ currentMove' = event'.nextMove
          /\ history' = history
      ]_vars

\* C5's case: a jump from the end of a game to a move in its middle.
C5_Witness ==
    /\ event.type = "jump"
    /\ event.nextMove = currentMove
    /\ 0 < currentMove
    /\ currentMove < Len(history) - 1

\* C6 as claimed: jumpTo with an index outside history does not set the cursor to
\* that index (it fails instead).
C6_OutOfRangeRefused ==
    [][ (event'.type = "jump" /\ event'.nextMove \notin Indices) =>
          currentMove' # event'.nextMove
      ]_vars

\* C6 as amended: jumpTo checks nothing.  Called with an index outside history it
\* sets the cursor to that index and leaves history as it was; history[cursor]
\* is then undefined, the render that follows throws, and no further event is
\* handled.  The render throws in no other case.
C6_OutOfRangeStored ==
    /\ [][ (event'.type = "jump" /\ event'.nextMove \notin Indices) =>
             /\ currentMove' = event'.nextMove
             /\ history' = history
             /\ ~mounted'
         ]_vars
    /\ [](~mounted => (/\ event.type = "jump"
                       /\ currentMove = event.nextMove
                       /\ currentMove \notin Indices
                       /\ ~ENABLED NextApi))

\* C6's case: jumpTo was called with an index outside history.
C6_Witness ==
    /\ event.type = "jump"
    /\ event.nextMove \notin Indices
    /\ Len(history) >= 2

\* C7: the mark of move k + 1 (the one cell in which history[k + 1] differs from
\* history[k]) is X when k is even and O when k is odd, so the marks alternate
\* along history, however the cursor came to be k.
C7_MarkFollowsCursor ==
    \A k \in 0 .. (Len(history) - 2) :
        \A c \in DiffCells(At(history, k), At(history, k + 1)) :
            At(history, k + 1)[c] = IF k % 2 = 0 THEN "X" ELSE "O"

\* C7's case: O has just played at cursor 1, reached by a jump back from a longer game.
C7_Witness ==
    /\ event.type = "play"
    /\ event.dropped >= 1
    /\ currentMove = 2
    /\ \E c \in Cells : At(history, 1)[c] = Null /\ At(history, 2)[c] = "O"

\* The 8 lines of the board by their geometry, 1-based: rows, columns, diagonals.
GridLines ==
    [k \in 1 .. 8 |->
        IF k <= 3 THEN <<3 * (k - 1), 3 * (k - 1) + 1, 3 * (k - 1) + 2>>
        ELSE IF k <= 6 THEN <<k - 4, k - 4 + 3, k - 4 + 6>>
        ELSE IF k = 7 THEN <<0, 4, 8>>
        ELSE <<2, 4, 6>>]

\* The lines of GridLines whose three cells hold the same mark on board b.
FullLines(b) ==
    {k \in 1 .. 8 :
        LET l == GridLines[k] IN
        b[l[1]] \in Marks /\ b[l[2]] = b[l[1]] /\ b[l[3]] = b[l[1]]}

\* The least element of a non-empty set of integers.
Least(S) == CHOOSE x \in S : \A y \in S : x <= y

\* C8: calculateWinner returns a mark iff some row, column or diagonal holds
\* three equal marks, null otherwise, and the mark is that of the first such
\* line in the order rows, columns, diagonals.
C8_WinnerIsFirstFullLine ==
    (probe.returned /\ event.type = "mount") =>
        LET b == probe.squares
            full == FullLines(b) IN
        /\ (probe.value \in Marks <=> full # {})
        /\ (full = {} => probe.value = Null)
        /\ (full # {} => probe.value = b[GridLines[Least(full)][1]])

\* C8's case: calculateWinner has returned on a board with full lines of both
\* marks, the first of them O's.
C8_Witness ==
    /\ probe.returned
    /\ probe.value = "O"
    /\ \E k \in FullLines(probe.squares) : probe.squares[GridLines[k][1]] = "X"

\* The lines of the source, by position in `lines`, that are matched on board b.
MatchedLines(b) == {k \in 1 .. Len(lines) : lineMatches(b, lines[k])}

\* C9: on every board of history all matched lines carry one mark, so the loop
\* of calculateWinner returns the same value whichever line it tests first.
C9_OrderIrrelevant ==
    \A k \in Indices :
        LET b == At(history, k) IN
        \A m \in MatchedLines(b) :
            /\ b[lines[m][1]] = calculateWinner(b)
            /\ winnerFrom(b, <<lines[m]>> \o lines, 1) = calculateWinner(b)

\* C9's case: the current board has two matched lines.
C9_Witness == Cardinality(MatchedLines(currentSquares)) >= 2

\* The board b with mark m written to cell i.
WithMark(b, i, m) == [b EXCEPT ![i] = m]

\* The game X 0, O 4, X 1, O 8, X 2, as the history it leaves.
ScenarioHistory ==
    LET b1 == WithMark(EmptyBoard, 0, "X")
        b2 == WithMark(b1, 4, "O")
        b3 == WithMark(b2, 1, "X")
        b4 == WithMark(b3, 8, "O")
        b5 == WithMark(b4, 2, "X")
    IN  <<EmptyBoard, b1, b2, b3, b4, b5>>

\* C10: while the current board has a winner no square click plays a move, and
\* the click that is ignored changes neither history nor the cursor; jumpTo
\* stays enabled for every index of history (the render makes a button for every
\* index but the current one).  After X 0, O 4, X 1, O 8, X 2 the winner is X.
C10_WonBoardRejectsClicks ==
    /\ [][ event'.type = "play" => calculateWinner(currentSquares) = Null ]_vars
    /\ [][ event'.type = "ignore" =>
             (UNCHANGED <<history, currentMove>> \/ calculateWinner(currentSquares) = Null)
         ]_vars
    /\ [](calculateWinner(currentSquares) # Null =>
             \A k \in Indices :
                 IF k = currentMove THEN ENABLED JumpStep(k) ELSE ENABLED MoveStep(k))
    /\ []((Len(history) = 6 /\ history = ScenarioHistory) =>
             calculateWinner(At(history, 5)) = "X")

\* C10's case: a click was ignored on the won board of the scenario.
C10_Witness ==
    /\ history = ScenarioHistory
    /\ currentMove = 5
    /\ calculateWinner(currentSquares) = "X"
    /\ event.type = "ignore"

\* C11: a click on an occupied square of the current board is handled without
\* an error (the tree stays mounted) and leaves history, with every board in
\* it, and the cursor exactly as they were.
C11_OccupiedClickIgnored ==
    \A i \in Cells :
        currentSquares[i] # Null =>
            /\ ENABLED SquareStep(i)
            /\ ~ENABLED (SquareStep(i) /\
                         <<history, currentMove, mounted>>' # <<history, currentMove, mounted>>)

\* C11's case: a click was ignored on a board without a winner, so on an
\* occupied square, at a cursor moved back from the end of the game.
C11_Witness ==
    /\ event.type = "ignore"
    /\ calculateWinner(currentSquares) = Null
    /\ 0 < currentMove
    /\ currentMove < Len(history) - 1

\* C12: while the current board has no matched line, a click on any empty
\* square i is accepted: the board after the current one becomes the current
\* board with the next player's mark in cell i, it is the last of history, and
\* the cursor advances by one; at any cursor, also one reached by a jump back.
C12_EmptyClickAccepted ==
    [](calculateWinner(currentSquares) = Null =>
        LET mark == IF currentMove % 2 = 0 THEN "X" ELSE "O"
            kept == SubSeq(history, 1, currentMove + 1)
        IN  \A i \in Cells :
                currentSquares[i] = Null =>
                    /\ ENABLED (/\ SquareStep(i)
                                /\ history' = Append(kept, [currentSquares EXCEPT ![i] = mark])
                                /\ currentMove' = currentMove + 1
                                /\ mounted')
                    /\ ~ENABLED (/\ SquareStep(i)
                                 /\ \/ history' # Append(kept, [currentSquares EXCEPT ![i] = mark])
                                    \/ currentMove' # currentMove + 1
                                    \/ ~mounted'))

\* C12's case: O's move was accepted at cursor 1 after a jump back.
C12_Witness ==
    /\ event.type = "play"
    /\ event.dropped >= 1
    /\ currentMove = 2
    /\ MarkCount(currentSquares) = 2

\* A board with a mark in every cell and no line of the grid in one mark.
IsDraw(b) == (\A c \in Cells : b[c] # Null) /\ FullLines(b) = {}

\* C13: on a drawn current board (9 marks, no line matched) calculateWinner
\* returns no winner and a click on any square changes neither history nor the
\* cursor; the operation that still changes the state is a jump to another move.
C13_DrawRejectsClicks ==
    [](IsDraw(currentSquares) =>
        /\ calculateWinner(currentSquares) = Null
        /\ \A i \in Cells :
               /\ ENABLED SquareStep(i)
               /\ ~ENABLED (SquareStep(i) /\
                            <<history, currentMove>>' # <<history, currentMove>>)
        /\ \A move \in Indices \ {currentMove} :
               ENABLED (MoveStep(move) /\ currentMove' = move /\ history' = history))

\* C13's case: a click was ignored on a drawn board.
C13_Witness ==
    /\ event.type = "ignore"
    /\ IsDraw(currentSquares)

\* C14 as stated: the list has, in index order, an entry for every index of
\* history, each one a control that jumps to its index, labelled
\* "Go to game start" for index 0 and "Go to move #N" for N > 0, the entry of
\* the current cursor included.
C14_EveryIndexHasControl ==
    /\ Len(moves) = Len(history)
    /\ \A index \in Indices :
           LET item == moves[index + 1]
           IN  /\ item.key = index
               /\ item.tag = "button"
               /\ item.onClick = index
               /\ item.text = IF index = 0 THEN <<"Go to game start">>
                              ELSE <<"Go to move #", index>>

\* C14 as the code has it: the list has, in index order, an entry for every
\* index of history; the entry of every index but the cursor is a button that
\* jumps to that index, labelled "Go to Game Start" for 0 and "Go to Move #N"
\* for N > 0; the entry of the cursor is the text "You are at move # N" and no
\* control jumps to the cursor.
C14_MovesList ==
    /\ Len(moves) = Len(history)
    /\ \A index \in Indices :
           LET item == moves[index + 1]
           IN  /\ item.key = index
               /\ IF index = currentMove
                  THEN /\ item.tag = "p"
                       /\ item.text = <<"You are at move # ", index>>
                       /\ ~ENABLED MoveStep(index)
                  ELSE /\ item.tag = "button"
                       /\ item.onClick = index
                       /\ item.text = IF index = 0 THEN <<"Go to Game Start">>
                                      ELSE <<"Go to Move #", index>>
                       /\ ENABLED (MoveStep(item.onClick) /\ currentMove' = index)

\* C14's case: the cursor is inside a history of at least three boards, with
\* buttons for the start and for a later move on either side of it.
C14_Witness ==
    /\ Len(history) >= 3
    /\ currentMove = 1
    /\ moves[1].tag = "button"
    /\ moves[2].tag = "p"
    /\ moves[3].tag = "button"

\* C15: an accepted move is atomic for what is rendered. The state the
\* components see changes only in the one render that follows the handler's
\* return, and after a move that render shows the new history and the new cursor
\* together; while handlePlay is between setHistory and setCurrentMove, and
\* until its render is done, no click handler starts and no render happens.
C15_MoveIsAtomic ==
    /\ [][<<history, currentMove>>' # <<history, currentMove>> =>
             /\ run.calls = <<>>
             /\ run.queue # <<>>
             /\ run' = NoRun]_vars
    /\ [][(run.queue # <<>> /\ run' = NoRun /\ event.type = "play") =>
             /\ Len(history') = currentMove + 2
             /\ SubSeq(history', 1, currentMove + 1) = SubSeq(history, 1, currentMove + 1)
             /\ currentMove' = currentMove + 1]_vars
    /\ [][(run.queue # <<>> /\ run' = NoRun /\ event.type = "jump") =>
             /\ history' = history
             /\ currentMove' = event.nextMove]_vars
    /\ [](run.calls # <<>> => (~ENABLED Render /\ ~ENABLED StartClickSquare /\ ~ENABLED StartClickMove))
    /\ [](run.queue # <<>> => (~ENABLED StartClickSquare /\ ~ENABLED StartClickMove))

\* C15's case: handlePlay, started after a jump back, has called setHistory and
\* not yet setCurrentMove.
C15_Witness ==
    /\ event.type = "play"
    /\ event.dropped >= 1
    /\ Len(run.queue) = 1
    /\ Len(run.calls) = 1

\* C16 as stated: in every operation, every index that exists in history before
\* and after it holds the same board after as before.
C16_CommonIndicesKept ==
    [][\A i \in Indices :
           i < Len(history') => At(history', i) = At(history, i)]_vars

\* C16 as the code has it: no operation changes a board at an index up to the
\* cursor; a rejected click and a jump change no entry of history at all; an
\* accepted move writes its mark only into the new entry at cursor + 1, which
\* takes the place of the board stored there before when the cursor was not at
\* the end of history.
C16_BoardsUpToCursorKept ==
    [][/\ \A i \in 0 .. currentMove :
              i < Len(history') /\ At(history', i) = At(history, i)
       /\ event'.type \in {"ignore", "jump"} => history' = history
       /\ event'.type = "play" =>
              /\ Len(history') = currentMove + 2
              /\ Cardinality(DiffCells(At(history', currentMove + 1), currentSquares)) = 1]_vars

\* C16's case: a move was accepted at cursor 0 of a history of three boards, so
\* index 1 held a board before the move and holds the new one after it.
C16_Witness ==
    /\ event.type = "play"
    /\ event.dropped = 2
    /\ currentMove = 1

\* C17: after every add, change or delete event, handled by both, the TaskApp
\* written with useState and the TaskApp written with useReducer hold the same
\* list of tasks (and the reducer has not thrown).
C17_SameTasks ==
    /\ taskApp.tasks = reducerApp.tasks
    /\ reducerApp.mounted

\* C17's case: both lists after tasks were added, one initial task was deleted
\* and one was changed.
C17_Witness ==
    /\ taskApp.nextId = Len(initialTasks) + MaxAdds
    /\ \E k \in 1 .. Len(taskApp.tasks) : taskApp.tasks[k].id >= Len(initialTasks)
    /\ \A k \in 1 .. Len(taskApp.tasks) : taskApp.tasks[k].id # 0
    /\ \E k \in 1 .. Len(taskApp.tasks) :
           taskApp.tasks[k].id = 1 /\ taskApp.tasks[k].text \in Texts

\* The three types a reducer knows.
KnownTypes(reducer) ==
    IF reducer = "tasksReducer" THEN {"added", "changed", "deleted"}
    ELSE {"add", "edit", "remove"}

\* C19: a task reducer called with an action whose type is none of its three
\* throws Error("Unknown action: " + type) and returns no next state; this for
\* tasksReducer and for taskReducers.
C19_UnknownTypeThrows ==
    (call.returned /\ call.action.type \notin KnownTypes(call.reducer)) =>
        /\ call.outcome.threw
        /\ call.outcome.message = <<"Unknown action: ", call.action.type>>

\* C20: in every reachable state of the two name forms, the initial one included,
\* the fullName held by StateStructureRedundant equals the fullName that
\* StateStructure computes, firstName + ' ' + lastName.
C20_SameFullName ==
    /\ redundantForm.firstName = derivedForm.firstName
    /\ redundantForm.lastName = derivedForm.lastName
    /\ redundantForm.fullName = fullName

\* C21: while status is 'submitting' the textarea takes no input and the button
\* submits nothing, and the button submits nothing while the answer is empty;
\* so a submission starts only from status 'typing' with a non-empty answer,
\* at most one call of submitForm is pending (exactly while status is
\* 'submitting'), and the answer does not change while one is pending.
C21_OneSubmissionAtATime ==
    /\ [](quiz.status = "submitting" => (~ENABLED TypeAnswer /\ ~ENABLED SubmitClick))
    /\ [](Len(quiz.answer) = 0 => ~ENABLED SubmitClick)
    /\ [](Len(quiz.pending) <= 1)
    /\ []((quiz.pending # <<>>) <=> (quiz.status = "submitting"))
    /\ [][Len(quiz'.pending) > Len(quiz.pending) =>
             /\ quiz.status = "typing"
             /\ Len(quiz.answer) > 0
             /\ quiz'.pending = Append(quiz.pending, quiz.answer)]_vars
    /\ [][quiz.pending # <<>> => quiz'.answer = quiz.answer]_vars

\* C21's case: a submission is pending, started after an earlier one was rejected.
C21_Witness ==
    /\ quiz.status = "submitting"
    /\ Len(quiz.pending) = 1
    /\ quiz.error # Null

\* The spellings of 'lima' in lower and upper case letters.
LimaSpellings ==
    {a \in [1 .. 4 -> QuizLetters] :
        /\ a[1] \in {"l", "L"} /\ a[2] \in {"i", "I"}
        /\ a[3] \in {"m", "M"} /\ a[4] \in {"a", "A"}}

\* A step in which the pending submission completes.
SubmissionCompletes == quiz.pending # <<>> /\ Len(quiz'.pending) < Len(quiz.pending)

\* C22: status becomes 'success' only when a submission completes whose answer
\* is a spelling of 'lima' (and then it does); a submission with any other answer
\* completes with status 'typing' and error set to the rejection; once status
\* is 'success' nothing changes the quiz and none of its events is enabled.
C22_SuccessOnlyForLima ==
    /\ [][(quiz'.status = "success" /\ quiz.status # "success") =>
             /\ quiz.status = "submitting"
             /\ SubmissionCompletes
             /\ Head(quiz.pending) \in LimaSpellings]_vars
    /\ [][SubmissionCompletes =>
             IF Head(quiz.pending) \in LimaSpellings
             THEN quiz'.status = "success" /\ quiz'.error = quiz.error
             ELSE quiz'.status = "typing" /\ quiz'.error = wrongAnswer]_vars
    /\ [][quiz.status = "success" => quiz' = quiz]_vars
    /\ [](quiz.status = "success" =>
             (~ENABLED TypeAnswer /\ ~ENABLED SubmitClick /\ ~ENABLED TimerFires))

\* C22's case: 'LiMa' was accepted after an earlier answer was rejected.
C22_Witness ==
    /\ quiz.status = "success"
    /\ quiz.answer = <<"L", "i", "M", "a">>
    /\ quiz.error = wrongAnswer

\* C23: every submission terminates: with timers that fire, whenever status is
\* 'submitting' it later is 'success' or 'typing'.
C23_SubmissionTerminates ==
    (quiz.status = "submitting") ~> (quiz.status \in {"success", "typing"})

\* C23's case: a submission with a wrong answer is pending.
C23_Witness ==
    /\ quiz.status = "submitting"
    /\ quiz.pending = << <<"m", "a", "l", "i">> >>

\* Two characters that are the same letter, in whichever case.
SameLetter(c, d) ==
    LET low(x) == IF x \in DOMAIN lowerCase THEN lowerCase[x] ELSE x
    IN  low(c) = low(d)

\* The name contains the text, case ignored.
ContainsIgnoringCase(name, text) ==
    \E k \in 0 .. (Len(name) - Len(text)) :
        \A j \in 1 .. Len(text) : SameLetter(name[k + j], text[j])

\* The products the table is to show for the search text and the checkbox.
Shown(product) ==
    /\ ContainsIgnoringCase(product.name, table.filterText)
    /\ table.inStockOnly => product.stocked

\* The rows of the table as rendered.
rendered == ProductTable(PRODUCTS, table.filterText, table.inStockOnly)

\* C24: the product rows are exactly the products whose name contains the
\* search text, case ignored, and that are stocked when the checkbox is set, in
\* the order of PRODUCTS; a category with a shown product has exactly one header
\* row, immediately before the row of its first shown product, and a category
\* with no shown product has none.
C24_RowsAreTheShownProducts ==
    LET productRows == SelectSeq(rendered, LAMBDA r : r.component = "ProductRow")
        shown == SelectSeq(PRODUCTS, Shown)
        categories == {PRODUCTS[k].category : k \in 1 .. Len(PRODUCTS)}
        headersOf(c) == {h \in 1 .. Len(rendered) :
                            /\ rendered[h].component = "ProductCategoryRow"
                            /\ rendered[h].category = c}
        productRowsOf(c) == {h \in 1 .. Len(rendered) :
                                /\ rendered[h].component = "ProductRow"
                                /\ rendered[h].product.category = c}
    IN  /\ Len(productRows) = Len(shown)
        /\ \A k \in 1 .. Len(shown) : productRows[k].product = shown[k]
        /\ \A c \in categories :
               IF \E k \in 1 .. Len(shown) : shown[k].category = c
               THEN /\ Cardinality(headersOf(c)) = 1
                    /\ \A h \in headersOf(c) :
                           /\ h + 1 \in productRowsOf(c)
                           /\ \A g \in productRowsOf(c) : h + 1 <= g
               ELSE headersOf(c) = {}

\* C24's case: "uI" with the checkbox set shows Dragonfruit alone, the second
\* product of its category, under the one header Fruits.
C24_Witness ==
    /\ table.filterText = <<"u", "I">>
    /\ table.inStockOnly
    /\ Len(rendered) = 2
    /\ rendered[1].component = "ProductCategoryRow"
    /\ rendered[2].product.name = PRODUCTS[2].name

\* A call of a reducer with the action type under which it replaces a task.
IsChange ==
    \/ call.reducer = "tasksReducer" /\ call.action.type = "changed"
    \/ call.reducer = "taskReducers" /\ call.action.type = "edit"

\* C25: a reducer called with a 'changed' action ('edit' for taskReducers)
\* returns a list of the same length and the same ids in the same order, equal to
\* its input except at the positions whose id is action.task.id, which hold
\* action.task; when no task has that id it returns a list equal to its input.
C25_ChangedReplacesInPlace ==
    (call.returned /\ IsChange) =>
        /\ ~call.outcome.threw
        /\ Len(call.outcome.value) = Len(call.tasks)
        /\ \A k \in 1 .. Len(call.tasks) :
               /\ call.outcome.value[k].id = call.tasks[k].id
               /\ call.outcome.value[k] =
                      IF call.tasks[k].id = call.action.task.id
                      THEN call.action.task ELSE call.tasks[k]
        /\ (\A k \in 1 .. Len(call.tasks) : call.tasks[k].id # call.action.task.id)
               => call.outcome.value = call.tasks

\* C25's case: a call changed the second of three tasks and left the others.
C25_Witness ==
    /\ call.returned
    /\ IsChange
    /\ Len(call.tasks) = 3
    /\ call.action.task.id = 1
    /\ call.outcome.value[2] # call.tasks[2]
    /\ call.outcome.value[1] = call.tasks[1]

\* The ids of the tasks of a list, in order.
IdsOf(tasks) == [k \in 1 .. Len(tasks) |-> tasks[k].id]

\* The ids of a list are pairwise distinct and all smaller than nextId.
FreshIds(app) ==
    /\ \A j, k \in 1 .. Len(app.tasks) : j # k => app.tasks[j].id # app.tasks[k].id
    /\ \A k \in 1 .. Len(app.tasks) : app.tasks[k].id < app.nextId

\* C26: in each of the three to-do components, after any add, change and delete
\* events the ids of the tasks are pairwise distinct and smaller than nextId;
\* an add event raises nextId by exactly one and no other event (a change or a
\* delete) changes it.
C26_IdsDistinctBelowNextId ==
    /\ [](FreshIds(taskApp) /\ FreshIds(reducerApp) /\ FreshIds(toDo))
    /\ [][LET added == IF AddAnyTask THEN 1 ELSE 0
           IN  /\ taskApp'.nextId = taskApp.nextId + added
               /\ reducerApp'.nextId = reducerApp.nextId + added
               /\ toDo'.nextId = toDo.nextId + added]_vars

\* C26's case: tasks were added after an initial task was deleted, so the length
\* of the list is not the next id, and the last task has the id before nextId.
C26_Witness ==
    /\ toDo.nextId = Len(toDoInitialTasks) + MaxAdds
    /\ Len(toDo.tasks) = Len(toDoInitialTasks)
    /\ IdsOf(toDo.tasks) = IdsOf(taskApp.tasks)
    /\ IdsOf(taskApp.tasks)[Len(taskApp.tasks)] = taskApp.nextId - 1

=============================================================================
